---- MODULE Spec2Model ----
(***************************************************************************)
(* Model of attrs_parser.py: the prefix-to-infix expression translator     *)
(* (AttrsParser.__convert_prefix_to_python_expression), the placeholder    *)
(* protection of preprocess/postprocess, and the four passes of            *)
(* process_xml over the file on disk.                                      *)
(***************************************************************************)
EXTENDS Integers, Sequences, FiniteSets, TLC

VARIABLES
    prefix,     \* translator: the argument of the call
    stack,      \* translator: the local list `stack` (top = last element)
    idx,        \* translator: position of reversed(prefix), tokens idx..1 left
    cpc,        \* translator: "start", "scan", "collapse", "returned", "raised"
    result,     \* translator: the returned string
    err,        \* translator: the exception that left the call, "" if none
    text,       \* round trip: the document text, a sequence of characters
    source,     \* round trip: the text before any substitution
    tpc,        \* round trip: "read", "protected", "unprotected"
    disk,       \* process_xml: the content of the file at self.xml_path
    TEST_MODE,  \* process_xml: the module global set from --test
    pc,         \* process_xml: the pass to run next, "done" or "raised"
    has_xml_declaration,            \* process_xml: self.has_xml_declaration
    xml_declaration_double_quote,   \* process_xml: self.xml_declaration_double_quote
    xml_content,                    \* process_xml: the document the last pass computed
    original                        \* process_xml: the content of the file at the start

translatorVars == <<prefix, stack, idx, cpc, result, err>>
textVars == <<text, source, tpc>>
xmlVars == <<disk, TEST_MODE, pc, has_xml_declaration, xml_declaration_double_quote,
             xml_content, original>>
vars == <<translatorVars, textVars, xmlVars>>

\* ------------------------------------------------------------------ bounds
MaxLen == 5       \* longest token sequence given to the translator
MaxChunks == 4    \* most fragments a document text is assembled from
MaxElems == 2     \* most elements of a document

\* A local variable of the code: F applied to the value v, computed once.
\* (TLC evaluates a LET definition and an operator argument again at every use.)
Bind(v, F(_)) == CHOOSE y \in { F(x) : x \in {v} } : TRUE

\* ------------------------------------------------------------------ values
\* A Python literal value: bool, int, str or a list of str.
BoolV(b) == [kind |-> "bool", b |-> b, n |-> 0, s |-> "", items |-> <<>>]
IntV(n) == [kind |-> "int", b |-> FALSE, n |-> n, s |-> "", items |-> <<>>]
StrV(s) == [kind |-> "str", b |-> FALSE, n |-> 0, s |-> s, items |-> <<>>]
ListV(items) == [kind |-> "list", b |-> FALSE, n |-> 0, s |-> "", items |-> items]

\* A token of a domain: a 3-tuple (field, operator, value) or a string.
Tuple(f, o, v) == [kind |-> "tuple", field |-> f, op |-> o, value |-> v, tok |-> ""]
StrTok(t) == [kind |-> "str", field |-> "", op |-> "", value |-> BoolV(FALSE), tok |-> t]

\* The argument of the translator: a list of tokens, or a bare integer.
ListP(ts) == [kind |-> "list", n |-> 0, tokens |-> ts]
IntP(n) == [kind |-> "int", n |-> n, tokens |-> <<>>]

\* isinstance(value, bool)
isinstance_bool(value) == value.kind = "bool"

\* ", ".join(repr(x) for x in items), the inside of a list's repr
RECURSIVE JoinItems(_)
JoinItems(items) ==
    IF Len(items) = 0 THEN ""
    ELSE IF Len(items) = 1 THEN "'" \o items[1] \o "'"
    ELSE "'" \o items[1] \o "', " \o JoinItems(Tail(items))

\* repr(value)
repr(value) ==
    CASE value.kind = "bool" -> (IF value.b THEN "True" ELSE "False")
      [] value.kind = "int" -> ToString(value.n)
      [] value.kind = "str" -> "'" \o value.s \o "'"
      [] value.kind = "list" -> "[" \o JoinItems(value.items) \o "]"

\* str(value), what an f-string's {value} interpolates
str(value) ==
    CASE value.kind = "str" -> value.s
      [] OTHER -> repr(value)

\* --------------------------------------------------------------- operators
equals_operator_swapped(field, value) ==
    IF isinstance_bool(value)
    THEN (IF value.b THEN "not " \o field ELSE field)
    ELSE field \o " == " \o repr(value)

equals_operator(field, value) ==
    IF isinstance_bool(value)
    THEN (IF value.b THEN field ELSE "not " \o field)
    ELSE field \o " == " \o repr(value)

not_equals_operator(field, value) ==
    IF isinstance_bool(value)
    THEN (IF value.b THEN "not " \o field ELSE field)
    ELSE field \o " != " \o repr(value)

\* The keys of AttrsParser.OPERATORS
OperatorKeys == {"=", "!=", "in", "not in", ">", "<", ">=", "<="}

OPERATORS_repr_everywhere(op, field, value) ==
    CASE op = "=" -> equals_operator(field, value)
      [] op = "!=" -> not_equals_operator(field, value)
      [] op \in {"in", "not in"} -> field \o " " \o op \o " " \o repr(value)
      [] OTHER -> field \o " " \o op \o " " \o repr(value)

\* AttrsParser.OPERATORS[op](field, value), for op in OperatorKeys
OPERATORS(op, field, value) ==
    CASE op = "=" -> equals_operator(field, value)
      [] op = "!=" -> not_equals_operator(field, value)
      [] op = "in" -> field \o " in " \o str(value)
      [] op = "not in" -> field \o " not in " \o str(value)
      [] op = ">" -> field \o " > " \o repr(value)
      [] op = "<" -> field \o " < " \o repr(value)
      [] op = ">=" -> field \o " >= " \o repr(value)
      [] op = "<=" -> field \o " <= " \o repr(value)

\* -------------------------------------------------------------- translator
\* The outcome of a piece of the translator: the stack, or the exception raised.
Ok(st) == [stack |-> st, err |-> ""]
Raise(e) == [stack |-> <<>>, err |-> e]

Pop(st) == SubSeq(st, 1, Len(st) - 1)
Top(st) == st[Len(st)]

JoinReduce_swapped(st, tok) ==
    LET left == Top(Pop(st))
        op == IF tok = "&" THEN "and" ELSE "or"
        right == Top(st)
    IN  Append(Pop(Pop(st)), "(" \o left \o " " \o op \o " " \o right \o ")")

JoinReduce_ops_swapped(st, tok) ==
    LET left == Top(st)
        op == IF tok = "|" THEN "and" ELSE "or"
        right == Top(Pop(st))
    IN  Append(Pop(Pop(st)), "(" \o left \o " " \o op \o " " \o right \o ")")

\* lines 106-109 with two strings on the stack: left is popped first
JoinReduce(st, tok) ==
    LET left == Top(st)
        op == IF tok = "&" THEN "and" ELSE "or"
        right == Top(Pop(st))
    IN  Append(Pop(Pop(st)), "(" \o left \o " " \o op \o " " \o right \o ")")

\* The body of the for loop (lines 103-109) for one token.
ScanToken(st, token) ==
    IF token.kind = "tuple"
    THEN IF token.op \in OperatorKeys
         THEN Ok(Append(st, OPERATORS(token.op, token.field, token.value)))
         ELSE Raise("KeyError")
    ELSE IF token.tok \in {"&", "|"}
         THEN IF Len(st) < 2 THEN Raise("IndexError") ELSE Ok(JoinReduce(st, token.tok))
         ELSE Ok(st)

\* The body of the while loop (lines 111-113): right is popped first.
ImplicitAnd(st) ==
    LET right == Top(st)
        left == Top(Pop(st))
    IN  Append(Pop(Pop(st)), "(" \o left \o " and " \o right \o ")")

SeqsUpTo(S, n) == UNION { [1..k -> S] : k \in 0..n }

\* What the variables of a part hold while another part runs.
IdleTranslator ==
    /\ prefix = IntP(0) /\ stack = <<>> /\ idx = 0
    /\ cpc = "idle" /\ result = "" /\ err = ""

IdleXml ==
    /\ disk = [decl |-> "none", elems |-> <<>>, text |-> <<>>] /\ original = disk /\ xml_content = disk
    /\ TEST_MODE = FALSE /\ pc = "idle"
    /\ has_xml_declaration = FALSE /\ xml_declaration_double_quote = FALSE

IdleText == text = <<>> /\ source = <<>> /\ tpc = "idle"

\* ------------------------------------------------ placeholder protection
\* The characters of [a-zA-Z_.] that the modelled texts use.
ClassChars == {"a", "d", "_", "."}

\* The index after the longest run of [a-zA-Z_.] that starts at i.
RECURSIVE RunEnd(_, _)
RunEnd(t, i) ==
    IF i <= Len(t) /\ t[i] \in ClassChars THEN RunEnd(t, i + 1) ELSE i

\* Where a match of %\([a-zA-Z_.]+\)d that starts at i ends; 0 when there is none.
PlaceholderEnd(t, i) ==
    IF i + 1 <= Len(t) /\ t[i] = "%" /\ t[i + 1] = "("
    THEN LET k == RunEnd(t, i + 2)
         IN  IF k > i + 2 /\ k + 1 <= Len(t) /\ t[k] = ")" /\ t[k + 1] = "d"
             THEN k + 1 ELSE 0
    ELSE 0

\* line 60: re.sub(r'(%\([a-zA-Z_.]+\))d', r"'\1d'", xml_content), from index i
RECURSIVE ProtectFrom(_, _)
ProtectFrom(t, i) ==
    IF i > Len(t) THEN <<>>
    ELSE LET e == PlaceholderEnd(t, i)
         IN  IF e # 0
             THEN <<"'">> \o SubSeq(t, i, e) \o <<"'">> \o ProtectFrom(t, e + 1)
             ELSE <<t[i]>> \o ProtectFrom(t, i + 1)

Protect(t) == ProtectFrom(t, 1)

\* Where a match of '(%\([a-zA-Z_.]+\)d)' that starts at i ends; 0 when there is none.
QuotedEnd(t, i) ==
    IF t[i] = "'"
    THEN LET e == PlaceholderEnd(t, i + 1)
         IN  IF e # 0 /\ e + 1 <= Len(t) /\ t[e + 1] = "'" THEN e + 1 ELSE 0
    ELSE 0

RECURSIVE UnprotectFrom_open_quote_only(_, _)
UnprotectFrom_open_quote_only(t, i) ==
    IF i > Len(t) THEN <<>>
    ELSE LET e == IF t[i] = "'" THEN PlaceholderEnd(t, i + 1) ELSE 0
         IN  IF e # 0
             THEN SubSeq(t, i + 1, e) \o UnprotectFrom_open_quote_only(t, e + 1)
             ELSE <<t[i]>> \o UnprotectFrom_open_quote_only(t, i + 1)

\* line 72: re.sub(r"'(%\([a-zA-Z_.]+\)d)'", r"\1", xml_content), from index i
RECURSIVE UnprotectFrom(_, _)
UnprotectFrom(t, i) ==
    IF i > Len(t) THEN <<>>
    ELSE LET e == QuotedEnd(t, i)
         IN  IF e # 0
             THEN SubSeq(t, i + 1, e - 1) \o UnprotectFrom(t, e + 1)
             ELSE <<t[i]>> \o UnprotectFrom(t, i + 1)

Unprotect_open_quote_only(t) == UnprotectFrom_open_quote_only(t, 1)

Unprotect(t) == UnprotectFrom(t, 1)

\* --------------------------------------------------- round trip: inputs
Placeholder == <<"%", "(", "a", ".", "d", ")", "d">>

Chunks ==
    { Placeholder, <<"'">>, <<"%", "(">>, <<")", "d">>, <<"a">>, <<"1">>,
      <<"'">> \o Placeholder \o <<"'">> }

RECURSIVE Flatten(_)
Flatten(cs) == IF Len(cs) = 0 THEN <<>> ELSE Head(cs) \o Flatten(Tail(cs))

Texts == { Flatten(cs) : cs \in SeqsUpTo(Chunks, MaxChunks) }

\* --------------------------------------------------- round trip: actions
RoundTripInit ==
    /\ text \in Texts
    /\ source = text
    /\ tpc = "read"
    /\ IdleTranslator
    /\ IdleXml

\* preprocess, line 60, on a text with no XML around it
ProtectText ==
    /\ tpc = "read"
    /\ text' = Protect(text)
    /\ tpc' = "protected"
    /\ UNCHANGED source
    /\ UNCHANGED <<translatorVars, xmlVars>>

\* postprocess, line 72, on the text preprocess left
UnprotectText ==
    /\ tpc = "protected"
    /\ text' = Unprotect(text)
    /\ tpc' = "unprotected"
    /\ UNCHANGED source
    /\ UNCHANGED <<translatorVars, xmlVars>>


\* ------------------------------------------- the translator as one call
RECURSIVE ScanAll(_, _, _)
ScanAll(ts, i, st) ==
    IF i = 0 THEN Ok(st)
    ELSE Bind(ScanToken(st, ts[i]),
              LAMBDA r : IF r.err # "" THEN r ELSE ScanAll(ts, i - 1, r.stack))

RECURSIVE CollapseAll(_)
CollapseAll(st) ==
    IF Len(st) > 1 THEN Bind(ImplicitAnd(st), LAMBDA next : CollapseAll(next)) ELSE st

\* __convert_prefix_to_python_expression(prefix): the string returned, or the
\* exception raised
convert_prefix_to_python_expression(p) ==
    IF p.kind = "int" /\ p.n \in {0, 1}
    THEN [err |-> "", out |-> IF p.n = 1 THEN "True" ELSE "False"]
    ELSE Bind(ScanAll(p.tokens, Len(p.tokens), <<>>),
              LAMBDA r :
                IF r.err # "" THEN [err |-> r.err, out |-> ""]
                ELSE Bind(CollapseAll(r.stack),
                          LAMBDA st :
                            IF Len(st) = 0 THEN [err |-> "IndexError", out |-> ""]
                            ELSE [err |-> "", out |-> st[1]]))

\* ------------------------------------------------------------- documents
\* An XML attribute of an element: absent, or present with a string value.
Absent == [present |-> FALSE, val |-> ""]
Present(v) == [present |-> TRUE, val |-> v]

AttrNames == {"name", "invisible", "column_invisible", "readonly"}

\* The attrs mapping literal {attribute: domain, ...}: a sequence of items.
Item(a, d) == [attribute |-> a, domain |-> d]
NoMapping == [present |-> FALSE, items |-> <<>>]
Mapping(items) == [present |-> TRUE, items |-> items]

\* element.text: none, a mapping literal, or a rendered expression.
NoBody == [kind |-> "none", items |-> <<>>, s |-> ""]
MappingBody(items) == [kind |-> "mapping", items |-> items, s |-> ""]
ExprBody(s) == [kind |-> "expr", items |-> <<>>, s |-> s]

\* An element: its tag, whether a <tree> is among its ancestors, its attrs
\* attribute, its other attributes and its text.
Elem(tag, in_tree, name, attrs, invisible, body) ==
    [ tag |-> tag, in_tree |-> in_tree, attrs |-> attrs, body |-> body,
      attrib |-> [a \in AttrNames |->
                    CASE a = "name" -> Present(name)
                      [] a = "invisible" -> invisible
                      [] OTHER -> Absent] ]

\* A document: the quote style of its XML declaration ("none" when it has no
\* declaration), its elements in document order, and the text of an attribute
\* the passes do not rewrite (a domain or context, where placeholders live).
Doc(decl, elems, t) == [decl |-> decl, elems |-> elems, text |-> t]

\* --------------------------------------------------------------- the passes
\* preprocess, lines 58-60, on the content read
preprocess_content(content) == [content EXCEPT !.text = Protect(@)]

\* etree.tostring(root, ..., xml_declaration=self.has_xml_declaration)
tostring(root, declaration) ==
    [root EXCEPT !.decl = IF declaration THEN "single" ELSE "none"]

\* lines 126-128 and 130-131: the loop over the items of the mapping, from item k
RECURSIVE UpdateItems(_, _, _)
UpdateItems(element, items, k) ==
    IF k > Len(items) THEN [err |-> "", element |-> element]
    ELSE Bind(convert_prefix_to_python_expression(items[k].domain),
              LAMBDA r :
                IF r.err # "" THEN [err |-> r.err, element |-> element]
                ELSE Bind(IF element.tag = "attribute"
                          THEN [element EXCEPT !.attrib["name"] = Present(items[k].attribute),
                                               !.body = ExprBody(r.out)]
                          ELSE [element EXCEPT !.attrib[items[k].attribute] = Present(r.out)],
                          LAMBDA updated : UpdateItems(updated, items, k + 1)))

\* __convert_and_update(element), lines 122-133
convert_and_update(element) ==
    IF element.tag = "attribute"
    THEN IF element.body.kind = "none"
         THEN [err |-> "", element |-> element]
         ELSE UpdateItems(element, element.body.items, 1)
    ELSE Bind(UpdateItems(element, element.attrs.items, 1),
              LAMBDA r :
                IF r.err # "" THEN r
                ELSE [err |-> "", element |-> [r.element EXCEPT !.attrs = NoMapping]])

\* The XPath of line 138: //*[@attrs] | //attribute[@name='attrs']
MatchesAttrs(element) ==
    \/ element.attrs.present
    \/ element.tag = "attribute" /\ element.attrib["name"] = Present("attrs")

\* lines 138-139: the loop over the matched elements, from element i
RECURSIVE ConvertElems(_, _)
ConvertElems(elems, i) ==
    IF i > Len(elems) THEN [err |-> "", elems |-> elems]
    ELSE IF MatchesAttrs(elems[i])
         THEN Bind(convert_and_update(elems[i]),
                   LAMBDA r :
                     IF r.err # "" THEN [err |-> r.err, elems |-> elems]
                     ELSE Bind([elems EXCEPT ![i] = r.element],
                               LAMBDA updated : ConvertElems(updated, i + 1)))
         ELSE ConvertElems(elems, i + 1)

\* convert_attrs, lines 137-141, on the content parsed
convert_attrs_content(content, declaration) ==
    Bind(ConvertElems(content.elems, 1),
         LAMBDA r :
           [err |-> r.err, content |-> tostring([content EXCEPT !.elems = r.elems], declaration)])

\* The XPath of line 147: //tree//field[@invisible]
MatchesInvisible(element) ==
    element.tag = "field" /\ element.in_tree /\ element.attrib["invisible"].present

\* lines 148-149
column_invisible(element) ==
    [element EXCEPT
        !.attrib["column_invisible"] =
            Present(IF element.attrib["invisible"].val = "1" THEN "True" ELSE "False"),
        !.attrib["invisible"] = Absent]

\* convert_column_invisible, lines 146-151, on the content parsed
convert_column_invisible_content(content, declaration) ==
    tostring([content EXCEPT !.elems =
                [i \in 1..Len(content.elems) |->
                    IF MatchesInvisible(content.elems[i])
                    THEN column_invisible(content.elems[i]) ELSE content.elems[i]]],
             declaration)

\* postprocess, lines 72-78, on the content read
postprocess_content(content, declaration, double_quote) ==
    [content EXCEPT !.text = Unprotect(@),
                    !.decl = IF declaration /\ double_quote /\ @ = "single"
                             THEN "double" ELSE @]

\* __write_xml, lines 45-48: what the file holds after the call
write_xml(content) == IF TEST_MODE THEN disk ELSE content

\* ------------------------------------------------------ process_xml: inputs
DomainB == ListP(<<Tuple("b", "=", BoolV(TRUE))>>)
DomainOr == ListP(<<StrTok("|"), Tuple("a", "=", BoolV(FALSE)), Tuple("b", "in", ListV(<<"x">>))>>)
DomainLike == ListP(<<Tuple("a", "like", StrV("x"))>>)

Elements ==
    { Elem("field", TRUE, "f", Mapping(<<Item("invisible", DomainB)>>), Absent, NoBody),
      Elem("field", TRUE, "f", NoMapping, Present("1"), NoBody),
      Elem("field", TRUE, "f", NoMapping, Present("0"), NoBody),
      Elem("field", TRUE, "f", NoMapping, Present("state == 'x'"), NoBody),
      Elem("field", FALSE, "f", NoMapping, Present("1"), NoBody),
      Elem("field", FALSE, "f",
           Mapping(<<Item("invisible", DomainOr), Item("readonly", IntP(1))>>), Absent, NoBody),
      Elem("field", FALSE, "f", Mapping(<<Item("readonly", DomainLike)>>), Absent, NoBody),
      Elem("attribute", FALSE, "attrs", NoMapping, Absent,
           MappingBody(<<Item("invisible", DomainB)>>)),
      Elem("attribute", FALSE, "attrs", NoMapping, Absent, NoBody) }

DocTexts == { <<>>, Placeholder, <<"'">> \o Placeholder \o <<"'">> }

Docs ==
    { Doc(decl, elems, t) :
        decl \in {"none", "single", "double"},
        elems \in (SeqsUpTo(Elements, MaxElems) \ {<<>>}),
        t \in DocTexts }

\* ----------------------------------------------------- process_xml: actions
\* __init__, lines 34-37, with the file and the --test flag of the run
Init ==
    /\ IdleTranslator
    /\ IdleText
    /\ disk \in Docs
    /\ original = disk
    /\ xml_content = disk
    /\ TEST_MODE \in BOOLEAN
    /\ pc = "preprocess"
    /\ has_xml_declaration = FALSE
    /\ xml_declaration_double_quote = FALSE

\* preprocess, lines 50-62
preprocess ==
    /\ pc = "preprocess"
    /\ has_xml_declaration' = (disk.decl # "none")
    /\ xml_declaration_double_quote' = (disk.decl = "double")
    /\ xml_content' = preprocess_content(disk)
    /\ disk' = write_xml(xml_content')
    /\ pc' = "convert_attrs"
    /\ UNCHANGED <<TEST_MODE, original>>
    /\ UNCHANGED <<translatorVars, textVars>>

\* convert_attrs, lines 135-142: an exception of the translator leaves the pass
\* before anything is serialized or written
convert_attrs ==
    /\ pc = "convert_attrs"
    /\ \E r \in {convert_attrs_content(disk, has_xml_declaration)} :
          IF r.err # ""
          THEN /\ pc' = "raised"
               /\ UNCHANGED <<disk, xml_content>>
          ELSE /\ xml_content' = r.content
               /\ disk' = write_xml(r.content)
               /\ pc' = "convert_column_invisible"
    /\ UNCHANGED <<TEST_MODE, original, has_xml_declaration, xml_declaration_double_quote>>
    /\ UNCHANGED <<translatorVars, textVars>>

\* convert_column_invisible, lines 144-152
convert_column_invisible ==
    /\ pc = "convert_column_invisible"
    /\ xml_content' = convert_column_invisible_content(disk, has_xml_declaration)
    /\ disk' = write_xml(xml_content')
    /\ pc' = "postprocess"
    /\ UNCHANGED <<TEST_MODE, original, has_xml_declaration, xml_declaration_double_quote>>
    /\ UNCHANGED <<translatorVars, textVars>>

\* postprocess, lines 64-80
postprocess ==
    /\ pc = "postprocess"
    /\ xml_content' = postprocess_content(disk, has_xml_declaration, xml_declaration_double_quote)
    /\ disk' = write_xml(xml_content')
    /\ pc' = "done"
    /\ UNCHANGED <<TEST_MODE, original, has_xml_declaration, xml_declaration_double_quote>>
    /\ UNCHANGED <<translatorVars, textVars>>


\* ---------------------------------------------------------- translator inputs
SeqConds ==
    { Tuple("a", "=", BoolV(TRUE)), Tuple("b", "=", BoolV(TRUE)),
      Tuple("a", "=", BoolV(FALSE)), Tuple("b", "in", ListV(<<"x">>)) }

SeqTokens == SeqConds \cup {StrTok("&"), StrTok("|")}

SampleValues ==
    { BoolV(TRUE), BoolV(FALSE), IntV(3), StrV("x"), ListV(<<"p", "q">>), ListV(<<>>) }

SingleConds ==
    { Tuple("F", o, v) : o \in OperatorKeys \cup {"like"}, v \in SampleValues }

TranslatorInputs ==
    { ListP(ts) : ts \in SeqsUpTo(SeqTokens, MaxLen) }
    \cup { ListP(<<c>>) : c \in SingleConds }
    \cup { ListP(<<StrTok("!"), c>>) : c \in SeqConds }
    \cup { IntP(0), IntP(1) }

\* ------------------------------------------------------- translator actions
TranslatorInit ==
    /\ prefix \in TranslatorInputs
    /\ stack = <<>>
    /\ idx = 0
    /\ cpc = "start"
    /\ result = ""
    /\ err = ""
    /\ IdleText
    /\ IdleXml

\* lines 99-101: stack = []; if prefix in [0, 1]: return str(bool(prefix))
ConvStart ==
    /\ cpc = "start"
    /\ IF prefix.kind = "int" /\ prefix.n \in {0, 1}
       THEN /\ result' = (IF prefix.n = 1 THEN "True" ELSE "False")
            /\ cpc' = "returned"
            /\ UNCHANGED idx
       ELSE /\ idx' = Len(prefix.tokens)
            /\ cpc' = IF Len(prefix.tokens) = 0 THEN "collapse" ELSE "scan"
            /\ UNCHANGED result
    /\ UNCHANGED <<prefix, stack, err>>
    /\ UNCHANGED <<textVars, xmlVars>>

\* lines 102-109: one iteration of `for token in reversed(prefix)`
ConvScan ==
    /\ cpc = "scan"
    /\ idx >= 1
    /\ LET r == ScanToken(stack, prefix.tokens[idx])
       IN  IF r.err # ""
           THEN /\ cpc' = "raised"
                /\ err' = r.err
                /\ UNCHANGED <<stack, idx>>
           ELSE /\ stack' = r.stack
                /\ idx' = idx - 1
                /\ cpc' = IF idx = 1 THEN "collapse" ELSE "scan"
                /\ UNCHANGED err
    /\ UNCHANGED <<prefix, result>>
    /\ UNCHANGED <<textVars, xmlVars>>

\* lines 110-113: one iteration of `while len(stack) > 1`
ConvCollapse ==
    /\ cpc = "collapse"
    /\ Len(stack) > 1
    /\ stack' = ImplicitAnd(stack)
    /\ UNCHANGED <<prefix, idx, cpc, result, err>>
    /\ UNCHANGED <<textVars, xmlVars>>

\* lines 114-115: print(..., stack[0]); return stack[0] if stack else ''
ConvReturn ==
    /\ cpc = "collapse"
    /\ Len(stack) <= 1
    /\ IF Len(stack) = 0
       THEN /\ cpc' = "raised"
            /\ err' = "IndexError"
            /\ UNCHANGED result
       ELSE /\ cpc' = "returned"
            /\ result' = stack[1]
            /\ UNCHANGED err
    /\ UNCHANGED <<prefix, stack, idx>>
    /\ UNCHANGED <<textVars, xmlVars>>

TranslatorNext == ConvStart \/ ConvScan \/ ConvCollapse \/ ConvReturn

SpecTranslator == TranslatorInit /\ [][TranslatorNext]_vars

\* ------------------------------------------------- translator: the claims
Finished == cpc \in {"returned", "raised"}

IsCond(t) == t.kind = "tuple" /\ t.op \in OperatorKeys
IsJoin(t) == t.kind = "str" /\ t.tok \in {"&", "|"}

\* Recursive descent over a prefix expression, left to right: the index after
\* the expression that starts at i, 0 when there is none.
RECURSIVE ParseEnd(_, _)
ParseEnd(ts, i) ==
    IF i < 1 \/ i > Len(ts) THEN 0
    ELSE IF IsCond(ts[i]) THEN i + 1
    ELSE IF IsJoin(ts[i]) THEN ParseEnd(ts, ParseEnd(ts, i + 1))
    ELSE 0

WellFormed(ts) == ParseEnd(ts, 1) = Len(ts) + 1

Render(c) == OPERATORS(c.op, c.field, c.value)

\* The infix string of the expression that starts at i.
RECURSIVE InfixAt(_, _)
InfixAt(ts, i) ==
    IF IsCond(ts[i]) THEN Render(ts[i])
    ELSE "(" \o InfixAt(ts, i + 1)
             \o (IF ts[i].tok = "&" THEN " and " ELSE " or ")
             \o InfixAt(ts, ParseEnd(ts, i + 1)) \o ")"

NumJoins(ts) == Cardinality({i \in 1..Len(ts) : IsJoin(ts[i])})

\* The steps above and the call as one operator give the same outcome.
StepsAgreeWithCall ==
    Finished =>
        LET r == convert_prefix_to_python_expression(prefix)
        IN  /\ (cpc = "returned") = (r.err = "")
            /\ err = r.err
            /\ result = r.out

RECURSIVE AndGroupings(_)
AndGroupings(rs) ==
    IF Len(rs) = 1 THEN {rs[1]}
    ELSE UNION { { "(" \o l \o " and " \o r \o ")" :
                     l \in AndGroupings(SubSeq(rs, 1, k)),
                     r \in AndGroupings(SubSeq(rs, k + 1, Len(rs))) }
                 : k \in 1..(Len(rs) - 1) }

OnlyConds(ts) == \A i \in 1..Len(ts) : IsCond(ts[i])

\* C2: two or more Conditions with no join token are combined with an implicit
\* AND, the rendered conditions in their original left-to-right order; for two
\* conditions the result is "(" render(C1) " and " render(C2) ")".
C2_ImplicitAndKeepsOrder ==
    (Finished /\ prefix.kind = "list" /\ Len(prefix.tokens) >= 2 /\ OnlyConds(prefix.tokens))
        => /\ cpc = "returned"
           /\ result \in AndGroupings([i \in 1..Len(prefix.tokens) |-> Render(prefix.tokens[i])])

SingleCond == prefix.kind = "list" /\ Len(prefix.tokens) = 1 /\ prefix.tokens[1].kind = "tuple"
TheCond == prefix.tokens[1]

\* C3: a Condition with a boolean value and operator '=' or '!=' renders as the
\* bare field when (operator is '=') agrees with the value, as "not " field
\* otherwise; no comparison is emitted.
C3_BooleanTruthyForm ==
    (Finished /\ SingleCond /\ TheCond.value.kind = "bool" /\ TheCond.op \in {"=", "!="})
        => /\ cpc = "returned"
           /\ result = (IF (TheCond.op = "=") = TheCond.value.b
                        THEN TheCond.field ELSE "not " \o TheCond.field)

\* ('F', '!=', True) has been rendered.
C3_Witness ==
    /\ cpc = "returned" /\ SingleCond
    /\ TheCond.op = "!=" /\ TheCond.value = BoolV(TRUE)
    /\ result = "not F"

NonBoolSupported ==
    SingleCond /\ TheCond.value.kind # "bool" /\ TheCond.op \in OperatorKeys

C5_JoinBetweenConditions ==
    (/\ Finished /\ prefix.kind = "list" /\ Len(prefix.tokens) = 3
     /\ IsCond(prefix.tokens[1]) /\ prefix.tokens[2] = StrTok("|") /\ IsCond(prefix.tokens[3]))
        => /\ cpc = "returned"
           /\ result = "(" \o Render(prefix.tokens[1]) \o " or " \o Render(prefix.tokens[3]) \o ")"

\* C5 amended: ['|', C1, C2], the join before the two Conditions, gives
\* "(" render(C1) " or " render(C2) ")".
C5_JoinBeforeConditions ==
    (/\ Finished /\ prefix.kind = "list" /\ Len(prefix.tokens) = 3
     /\ prefix.tokens[1] = StrTok("|") /\ IsCond(prefix.tokens[2]) /\ IsCond(prefix.tokens[3]))
        => /\ cpc = "returned"
           /\ result = "(" \o Render(prefix.tokens[2]) \o " or " \o Render(prefix.tokens[3]) \o ")"

\* ['|', ('a','=',False), ('b','in',['x'])] has been translated.
C5_Witness ==
    /\ cpc = "returned"
    /\ prefix = ListP(<<StrTok("|"), Tuple("a", "=", BoolV(FALSE)), Tuple("b", "in", ListV(<<"x">>))>>)
    /\ result = "(not a or b in ['x'])"

\* C6: for the empty sequence the translator returns the empty string and
\* does not fail.
C6_EmptyGivesEmptyString ==
    (Finished /\ prefix = ListP(<<>>)) => (cpc = "returned" /\ result = "")


\* -------------------------------------------------- round trip: the claim
RoundTripNext == ProtectText \/ UnprotectText

SpecRoundTrip == RoundTripInit /\ [][RoundTripNext]_vars

HasPlaceholder(t) == \E i \in 1..Len(t) : PlaceholderEnd(t, i) # 0
HasQuotedPlaceholder(t) == \E i \in 1..Len(t) : QuotedEnd(t, i) # 0

Next == preprocess \/ convert_attrs \/ convert_column_invisible \/ postprocess

Spec == Init /\ [][Next]_vars

\* What each pass computes when every pass before it has written its result:
\* the passes composed on the initial content.
AfterPreprocess(d) == preprocess_content(d)
AfterConvertAttrs(d) == convert_attrs_content(AfterPreprocess(d), d.decl # "none").content
AfterColumnInvisible(d) == convert_column_invisible_content(AfterConvertAttrs(d), d.decl # "none")
AfterPostprocess(d) ==
    postprocess_content(AfterColumnInvisible(d), d.decl # "none", d.decl = "double")

ComputedAsInNormalMode ==
    /\ pc = "convert_attrs" => xml_content = AfterPreprocess(original)
    /\ pc = "convert_column_invisible" => xml_content = AfterConvertAttrs(original)
    /\ pc = "postprocess" => xml_content = AfterColumnInvisible(original)
    /\ pc = "done" => xml_content = AfterPostprocess(original)

\* In normal mode every pass computes the composition above.
NormalModeComputes == ~TEST_MODE => ComputedAsInNormalMode

\* C7: in dry-run mode each of the four passes computes the document the same
\* pass computes in normal mode from the same initial file content.
C7_DryRunComputesSameDocuments == TEST_MODE => ComputedAsInNormalMode

\* C8: when the translator fails while a file is processed in normal mode, the
\* file still holds its original content.
C8_NothingWrittenOnFailure ==
    (~TEST_MODE /\ pc = "raised") => disk = original

\* C10: the visibility pass leaves an invisible value other than "0"/"1"
\* unchanged, so an invisible expression the attrs pass wrote on a field under
\* a tree is on that field, with that value, in the final document.
C10_InvisibleExpressionSurvives ==
    (~TEST_MODE /\ pc = "done") =>
        \A i \in 1..Len(original.elems) :
            LET e == original.elems[i]
            IN  (e.tag = "field" /\ e.in_tree /\ e.attrs.present) =>
                    \A k \in 1..Len(e.attrs.items) :
                        e.attrs.items[k].attribute = "invisible" =>
                            disk.elems[i].attrib["invisible"] =
                                Present(convert_prefix_to_python_expression(
                                            e.attrs.items[k].domain).out)
====
